---- MODULE Spec2Model ----
(***************************************************************************)
(* Model of src/handler.js: handleJob(taskId, rcl), the worker-side task   *)
(* executor.  Each element of Workers is one invocation of handleJob for   *)
(* the same task id against the same Redis instance (a duplicate delivery  *)
(* of the task to another worker process).  One step of the model is one   *)
(* turn of the Node.js event loop of one worker: a Redis reply, a timer, a *)
(* child-process 'close' event, or an action of the environment.           *)
(***************************************************************************)
EXTENDS Naturals, Integers, Sequences, FiniteSets, Bags, TLC

\* ---------------------------------------------------------------- bounds
MaxRetriesEnv == 2
MaxWatchRetries == 1
MaxMsgs == 2
MaxBackoffSeed == 2
MaxBackoffRetries == 7

\* ------------------------------------------------------ program constants
DefaultNumRetries == 1
DefaultWatchRetries == 10
DefaultBackoffSeed == 10
BackoffFactorCap == 5
MsPerSecond == 1000

\* Two deliveries of the same task: the original one and a duplicate.
Workers == {"w1", "w2"}
TaskId == "task:wf1:0"
Codes == {0, 1, 2}

\* An environment variable is <<>> when unset and <<n>> when set to the
\* numeral n (process.env values are strings; "0" is a truthy string).
EnvValues(max) == {<<>>} \cup {<<n>> : n \in 0..max}

\* process.env.X || d
EnvOr(v, d) == IF v = <<>> THEN d ELSE v[1]

\* Job descriptors that the engine may have queued for the task.
\* A redirection key that is absent from a descriptor is "".
JobA == [name |-> "a", inputs |-> <<"in1", "in2">>,
         stdout |-> "a.out", stdoutAppend |-> "",
         stderr |-> "", stderrAppend |-> "a.err"]
JobB == [name |-> "b", inputs |-> <<>>,
         stdout |-> "", stdoutAppend |-> "b.out",
         stderr |-> "", stderrAppend |-> ""]
Descriptors == {JobA, JobB}
Files == {"in1", "in2"}
NoJob == [name |-> "none", inputs |-> <<>>,
          stdout |-> "", stdoutAppend |-> "",
          stderr |-> "", stderrAppend |-> ""]
Streams == {"stdout", "stderr"}

\* The three sampling loops of logProcInfo and the results of one sample.
Kinds == {"io", "netdev", "usage"}
Results == {"ok", "notFound", "error"}

\* Process ids: the process spawned by attempt a and the child it may fork.
\* The operating system gives every process of a run a pid of its own.
MainPid(a) == <<a, 0>>
ChildPid(a) == <<a, 1>>

SeqsUpTo(S, n) == UNION {[1..k -> S] : k \in 1..n}

VARIABLES
    \* the Redis store and the file system
    acqCount,        \* value of <taskId>_acqCount
    completedTasks,  \* members of wf:<wfId>:completedTasks
    msgQueue,        \* list <taskId>_msg, head (left) first
    hf_all_jobs,     \* members of the set hf_all_jobs
    notifications,   \* completion notifications received by the control plane
    content,         \* what each output file holds: <<worker, attempt>> per write
    existing,        \* input files that exist
    \* configuration (process.env)
    envRetries,      \* HF_VAR_NUMBER_OF_RETRIES
    envWait,         \* HF_VAR_WAIT_FOR_INPUT_FILES == "1"
    envWatchRetries, \* HF_VAR_FILE_WATCH_NUM_RETRIES
    envBackoffSeed,  \* HF_VAR_BACKOFF_SEED
    procfsFails,     \* whether reading the procfs of a live process can fail
    forkAt,          \* the attempts on which the job forks a child
    \* the job
    exitZeroAt,      \* the attempt at which the job first exits 0 (0: never)
    \* one handleJob run per worker
    pc,              \* where the async function handleJob is suspended
    outcome,         \* settlement of the promise handleJob returned
    retval,          \* <<>> for undefined, <<code>> for a returned exit code
    totalAcq,        \* reply of incr
    jobHasCompleted, \* reply of sismember
    jm,              \* parsed job message
    numRetries,      \* closure variable numRetries
    attempt,         \* parameter attempt of the latest executeJob call
    proc,            \* state of the retry chain of executeJob
    code,            \* exit code seen by the latest close handler
    resolved,        \* attempts whose executeJob promise has been resolved
    backoffDelay,    \* close handler: backoffDelay, in seconds
    timer,           \* milliseconds left on the backoff timer
    num_retries,     \* waitForInputs: round counter
    filesToWatch,    \* waitForInputs: files still watched
    filesReady,      \* waitForInputs: files observed, in order
    \* history (not read by the program)
    initQueue,       \* msgQueue before any run
    memberAtCheck,   \* whether the task was in completedTasks at the check
    retrievals,      \* getJobMessage replies per run
    checkRounds,     \* rounds of waitForInputs that checked file existence
    spawns,          \* child processes spawned per run
    exits,           \* exit codes of the attempts of a run, in order
    notifyCalls,     \* calls of notifyJobCompletion per run
    events,          \* what a run did, in order
    elapsed,         \* seconds passed since the backoff timer was set
    \* the process monitor of a run
    alive,           \* the pids that exist
    forked,          \* the children forked so far
    allpids,         \* allpids of each call of executeJob
    chains,          \* the discovery chain started by each call of executeJob
    loops,           \* the sampling loop of each <<pid, kind>>
    procInfoCalls    \* how often logProcInfo was called per pid

storeVars == <<acqCount, completedTasks, msgQueue, hf_all_jobs, notifications, existing>>
envVars == <<envRetries, envWait, envWatchRetries, envBackoffSeed, exitZeroAt,
             procfsFails, forkAt>>
runVars == <<pc, outcome, retval, totalAcq, jobHasCompleted, jm>>
execVars == <<numRetries, attempt, proc, code, resolved>>
waitVars == <<num_retries, filesToWatch, filesReady>>
timerVars == <<backoffDelay, timer, elapsed>>
fileVars == <<content>>
monVars == <<alive, forked, allpids, chains, loops, procInfoCalls>>
histVars == <<initQueue, memberAtCheck, retrievals, checkRounds, spawns, exits, notifyCalls,
              events>>
vars == <<storeVars, envVars, runVars, execVars, waitVars, timerVars, fileVars, monVars,
         histVars>>

\* ------------------------------------------------------- pure functions

\* allJobsMember (lines 48-49): the task id and values of the environment,
\* which every worker of this deployment shares.
allJobsMember(w) == <<TaskId, "node", "colloc">>

\* The membership test against a key that holds no task.
hasCompletedOtherKey(taskId) == taskId \in {}

\* hasCompleted (lines 78-86): sismember wf:<wfId>:completedTasks taskId
hasCompleted(taskId) == taskId \in completedTasks

\* rpop: the popped value is not pushed back.
QueueAfterPop(q) == SubSeq(q, 1, Len(q) - 1)

\* brpoplpush key key (line 65): pops the tail of the list and pushes the
\* popped value onto the head of the same list.
QueueAfterRetrieval(q) == <<q[Len(q)]>> \o SubSeq(q, 1, Len(q) - 1)

RetrievedMessage(q) == q[Len(q)]

\* The reply of incr (line 55).
IncrReply(n) == n + 1

\* var numRetries = process.env.HF_VAR_NUMBER_OF_RETRIES || 1 (line 159)
InitialNumRetries == EnvOr(envRetries, DefaultNumRetries)

\* A retry condition that forgets the count.
ShouldRetryAnyFailure(c, n) == c # 0

\* code != 0 && numRetries > 0 (line 241)
ShouldRetry(c, n) == c # 0 /\ n > 0

\* stdoutfilename and stderrfilename (lines 365-366): the names hold the
\* handlerId of the worker's process.
LogFile(w, s) == <<"log", w, s>>
LogFiles(w) == {LogFile(w, s) : s \in Streams}

\* jm["stdout"] || jm["stdoutAppend"], jm["stderr"] || jm["stderrAppend"]
\* (lines 209, 217)
Redir(m, s) ==
    IF s = "stdout"
    THEN IF m.stdout # "" THEN m.stdout ELSE m.stdoutAppend
    ELSE IF m.stderr # "" THEN m.stderr ELSE m.stderrAppend

\* jm["stdout"] ? 'w' : 'a', jm["stderr"] ? 'w' : 'a' (lines 211, 219)
RedirFlags(m, s) ==
    IF s = "stdout"
    THEN IF m.stdout # "" THEN "w" ELSE "a"
    ELSE IF m.stderr # "" THEN "w" ELSE "a"

RedirFile(m, s) == <<"redir", Redir(m, s)>>
RedirStreams(m) == {s \in Streams : Redir(m, s) # ""}
RedirFiles(m) == {RedirFile(m, s) : s \in RedirStreams(m)}
OutputFiles ==
    UNION {LogFiles(w) : w \in Workers}
        \cup UNION {RedirFiles(m) : m \in Descriptors}

\* {flags: 'w'} (lines 367-368)
InitialLogFlags == "w"

\* Log files reopened for truncation.
RetryLogFlagsTruncate == "w"

\* {flags: 'a'} (lines 245-246)
RetryLogFlags == "a"

\* fs.createWriteStream(f, {flags: flags}): 'w' truncates the file, 'a'
\* keeps what it holds.
Open(c, f, flags) == IF flags = "w" THEN [c EXCEPT ![f] = <<>>] ELSE c

RECURSIVE OpenLogs(_, _, _, _)
OpenLogs(c, w, ss, flags) ==
    IF ss = {} THEN c
    ELSE LET s == CHOOSE x \in ss : TRUE
         IN OpenLogs(Open(c, LogFile(w, s), flags), w, ss \ {s}, flags)

RECURSIVE OpenRedirs(_, _, _)
OpenRedirs(c, m, ss) ==
    IF ss = {} THEN c
    ELSE LET s == CHOOSE x \in ss : TRUE
         IN OpenRedirs(Open(c, RedirFile(m, s), RedirFlags(m, s)), m, ss \ {s})

\* The streams of the process of attempt a piped to the files fs
\* (lines 169-170, 213, 221): each file gets the attempt's output.
Piped(c, fs, w, a) ==
    [f \in DOMAIN c |-> IF f \in fs THEN Append(c[f], <<w, a>>) ELSE c[f]]

\* What a read of the procfs entry (or pidusage) of p gives.
SampleResults(live, p) ==
    IF p \in live
    THEN {"ok"} \cup (IF procfsFails THEN {"error"} ELSE {})
    ELSE {"notFound"}

\* logProcIO (lines 105-119): the timer is set at the end of the try block;
\* the catch block writes a line for ERR_NOT_FOUND only.
LogProcIO(r) ==
    IF r = "ok" THEN [scheduled |-> TRUE, last |-> r, logged |-> FALSE]
    ELSE [scheduled |-> FALSE, last |-> r, logged |-> (r = "notFound")]

\* logProcNetDev (lines 121-134): as logProcIO, with an empty catch block.
LogProcNetDev(r) ==
    IF r = "ok" THEN [scheduled |-> TRUE, last |-> r, logged |-> FALSE]
    ELSE [scheduled |-> FALSE, last |-> r, logged |-> FALSE]

\* The callback of pidusage in logPidUsage (lines 137-153): any err is
\* written and returns before the timer is set.
LogPidUsage(r) ==
    IF r = "ok" THEN [scheduled |-> TRUE, last |-> r, logged |-> FALSE]
    ELSE [scheduled |-> FALSE, last |-> r, logged |-> TRUE]

\* logPidUsage(pid) up to the call of pidusage: the callback is pending.
PidUsagePending == [scheduled |-> TRUE, last |-> "none", logged |-> FALSE]

AfterSample(kind, r) ==
    IF kind = "io" THEN LogProcIO(r)
    ELSE IF kind = "netdev" THEN LogProcNetDev(r)
    ELSE LogPidUsage(r)

\* The loops of the pids ps after logProcInfo (lines 92-157): logProcIO and
\* logProcNetDev take their first sample at once, with results r.
StartLoops(ps, r) ==
    [x \in ps \X Kinds |->
        IF x[2] = "io" THEN LogProcIO(r[<<x[1], "io">>])
        ELSE IF x[2] = "netdev" THEN LogProcNetDev(r[<<x[1], "netdev">>])
        ELSE PidUsagePending]

\* The results that the first samples of the pids ps can have.
FirstSamples(live, ps) ==
    {r \in [ps \X {"io", "netdev"} -> Results] :
        \A x \in ps \X {"io", "netdev"} : r[x] \in SampleResults(live, x[1])}

Calls(f, p) == IF p \in DOMAIN f THEN f[p] ELSE 0

\* The count of logProcInfo calls after one more call for each pid of ps.
CountCalls(f, ps) ==
    [p \in DOMAIN f \cup ps |-> IF p \in ps THEN Calls(f, p) + 1 ELSE f[p]]

\* A check of allpids that never finds the pid.
IsTrackedNever(all, p) == FALSE

\* allpids[p] (line 197)
IsTracked(all, p) == p \in all

\* The states of a discovery chain: its timer is set (line 202), its
\* pidtree call is pending with the pids (or the error) it will give to the
\* callback of the addPidTree closure of the given attempt, or it has ended.
ChainTimer == [phase |-> "timer", closure |-> 0, found |-> FALSE, pids |-> {}]
ChainOver == [phase |-> "ended", closure |-> 0, found |-> FALSE, pids |-> {}]

\* pidtree(targetPid, ...) (line 194) for the target of attempt a: the
\* descendants of the target without the target itself, an error when the
\* target does not exist.
PidtreeCall(a, live) ==
    [phase |-> "pidtree", closure |-> a,
     found |-> MainPid(a) \in live,
     pids |-> IF MainPid(a) \in live THEN {ChildPid(a)} \cap live ELSE {}]

\* var backoffSeed = process.env.HF_VAR_BACKOFF_SEED || 10 (line 160)
BackoffSeed == EnvOr(envBackoffSeed, DefaultBackoffSeed)

\* var factor = attempt > 5 ? 5: attempt (line 247)
BackoffFactor(a) == IF a > BackoffFactorCap THEN BackoffFactorCap ELSE a

\* The values of Math.ceil(Math.random() * backoffSeed * factor).
BackoffDelaysCeil(a) == 0..(BackoffSeed * BackoffFactor(a))

\* The values of Math.floor(Math.random() * backoffSeed * factor), for
\* Math.random() in [0, 1) (line 248).
BackoffDelays(a) ==
    {d \in 0..(BackoffSeed * BackoffFactor(a)) :
        d = 0 \/ d < BackoffSeed * BackoffFactor(a)}

\* backoffDelay*1000 (line 250)
TimerMs(d) == d * MsPerSecond

\* The exit codes the job can produce on attempt a: non-zero before the
\* attempt exitZeroAt, 0 on it, anything after it.
ExitCodes(a) ==
    IF exitZeroAt = 0 \/ a < exitZeroAt THEN Codes \ {0}
    ELSE IF a = exitZeroAt THEN {0} ELSE Codes

\* process.env.HF_VAR_FILE_WATCH_NUM_RETRIES || 10 (line 422)
WatchRetries == EnvOr(envWatchRetries, DefaultWatchRetries)

\* A comparison that never holds (a budget that is no number).
WatchBudgetNever(n, max) == FALSE

\* num_retries >= max_retries
WatchBudgetReached(n, max) == n >= max

\* num_retries > max_retries (line 302)
WatchBudgetExceeded(n, max) == n > max

\* process.env.HF_VAR_WAIT_FOR_INPUT_FILES=="1" && jm.inputs && jm.inputs.length
\* (line 419)
MustWaitForInputs(m) == envWait /\ Len(m.inputs) > 0

\* The files of a sequence that satisfy / do not satisfy fs.existsSync, in
\* the order of the sequence (lines 315-323).
RECURSIVE SelectFiles(_, _)
SelectFiles(fs, keep) ==
    IF fs = <<>> THEN <<>>
    ELSE IF Head(fs) \in keep THEN <<Head(fs)>> \o SelectFiles(Tail(fs), keep)
         ELSE SelectFiles(Tail(fs), keep)

\* ------------------------------------------------------------ initial state

\* The runs of ws have not started; the other workers never run.
InitRuns(ws) ==
    /\ pc = [w \in Workers |-> IF w \in ws THEN "idle" ELSE "absent"]
    /\ outcome = [w \in Workers |-> "pending"]
    /\ retval = [w \in Workers |-> <<>>]
    /\ totalAcq = [w \in Workers |-> 0]
    /\ jobHasCompleted = [w \in Workers |-> FALSE]
    /\ jm = [w \in Workers |-> NoJob]
    /\ numRetries = [w \in Workers |-> 0]
    /\ attempt = [w \in Workers |-> 0]
    /\ proc = [w \in Workers |-> "none"]
    /\ code = [w \in Workers |-> 0]
    /\ resolved = [w \in Workers |-> {}]
    /\ num_retries = [w \in Workers |-> 0]
    /\ filesToWatch = [w \in Workers |-> <<>>]
    /\ filesReady = [w \in Workers |-> <<>>]
    /\ initQueue = msgQueue
    /\ memberAtCheck = [w \in Workers |-> FALSE]
    /\ retrievals = [w \in Workers |-> 0]
    /\ checkRounds = [w \in Workers |-> 0]
    /\ spawns = [w \in Workers |-> 0]
    /\ exits = [w \in Workers |-> <<>>]
    /\ notifyCalls = [w \in Workers |-> 0]
    /\ events = [w \in Workers |-> <<>>]
    /\ backoffDelay = [w \in Workers |-> 0]
    /\ timer = [w \in Workers |-> 0]
    /\ elapsed = [w \in Workers |-> 0]
    /\ content = [f \in OutputFiles |-> <<>>]
    /\ alive = [w \in Workers |-> {}]
    /\ forked = [w \in Workers |-> {}]
    /\ allpids = [w \in Workers |-> <<>>]
    /\ chains = [w \in Workers |-> <<>>]
    /\ loops = [w \in Workers |-> <<>>]
    /\ procInfoCalls = [w \in Workers |-> <<>>]

\* The store before the task was ever handled.
FreshStore ==
    /\ acqCount = 0
    /\ completedTasks = {}
    /\ notifications = <<>>

\* The store after an earlier worker process handled the task to the end:
\* the restart that lines 394-395 describe.
RestartedStore ==
    /\ acqCount = 1
    /\ completedTasks = {TaskId}
    /\ notifications = <<[worker |-> "w0", code |-> 0]>>

\* One run of handleJob, for every configuration within the bounds.
Init ==
    /\ FreshStore \/ RestartedStore
    /\ msgQueue \in SeqsUpTo(Descriptors, MaxMsgs)
    /\ hf_all_jobs = {}
    /\ existing = {}
    /\ envRetries \in EnvValues(MaxRetriesEnv)
    /\ envWait \in BOOLEAN
    /\ envWatchRetries \in EnvValues(MaxWatchRetries)
    /\ envBackoffSeed = <<2>>
    /\ procfsFails = FALSE
    /\ forkAt = {}
    /\ exitZeroAt \in 0..(MaxRetriesEnv + 1)
    /\ InitRuns({"w1"})

\* Two runs of handleJob for the same task, in any interleaving.
InitDup ==
    /\ FreshStore
    /\ msgQueue \in SeqsUpTo(Descriptors, MaxMsgs)
    /\ hf_all_jobs = {}
    /\ existing = {}
    /\ envRetries \in {<<>>, <<2>>}
    /\ envWait \in BOOLEAN
    /\ envWatchRetries = <<0>>
    /\ envBackoffSeed = <<2>>
    /\ procfsFails = FALSE
    /\ forkAt = {}
    /\ exitZeroAt \in {0, 2}
    /\ InitRuns(Workers)

\* One run of a job that succeeds at once or keeps failing, for every
\* backoff seed within the bounds and enough retries for the cap of the
\* backoff factor to apply.
InitBackoff ==
    /\ FreshStore
    /\ msgQueue = <<JobA>>
    /\ hf_all_jobs = {}
    /\ existing = {}
    /\ envRetries = <<MaxBackoffRetries>>
    /\ envWait \in BOOLEAN
    /\ envWatchRetries = <<0>>
    /\ envBackoffSeed \in EnvValues(MaxBackoffSeed)
    /\ procfsFails = FALSE
    /\ forkAt = {}
    /\ exitZeroAt \in {0, 1}
    /\ InitRuns({"w1"})

\* One run with its process monitor: a single attempt whose procfs reads can
\* fail, or a failing attempt and a retry that forks a child.
InitMon ==
    /\ FreshStore
    /\ msgQueue = <<JobA>>
    /\ hf_all_jobs = {}
    /\ existing = {"in1"}
    /\ envWait = TRUE
    /\ envWatchRetries = <<0>>
    /\ envBackoffSeed = <<2>>
    /\ \/ /\ procfsFails = TRUE
          /\ envRetries = <<>>
          /\ exitZeroAt = 0
          /\ forkAt \in {{}, {1}}
       \/ /\ procfsFails = FALSE
          /\ envRetries = <<2>>
          /\ exitZeroAt = 2
          /\ forkAt = {2}
    /\ InitRuns({"w1"})

\* ------------------------------------------------------------------ actions

\* handleJob up to its first await (lines 39-388): sadd hf_all_jobs, the
\* closure variables, and the incr request.
Start(w) ==
    /\ pc[w] = "idle"
    /\ hf_all_jobs' = hf_all_jobs \cup {allJobsMember(w)}
    /\ numRetries' = [numRetries EXCEPT ![w] = InitialNumRetries]
    /\ pc' = [pc EXCEPT ![w] = "acquireTask"]
    /\ UNCHANGED <<acqCount, completedTasks, msgQueue, notifications, existing>>
    /\ UNCHANGED <<outcome, retval, totalAcq, jobHasCompleted, jm>>
    /\ UNCHANGED <<attempt, proc, code, resolved>>
    /\ UNCHANGED <<envVars, waitVars, histVars>>
    /\ UNCHANGED timerVars
    /\ content' = OpenLogs(content, w, Streams, InitialLogFlags)
    /\ UNCHANGED monVars

\* A run that retrieves the descriptor without the completion check.
AfterAcquireNoCheck(reply) == "getJobMessage"

\* A run that returns when the task was acquired before.
AfterAcquireOnce(reply) == IF reply > 1 THEN "done" ELSE "hasCompleted"

\* What handleJob does after the reply of incr (lines 389-396): the warning
\* changes nothing, hasCompleted is called.
AfterAcquire(reply) == "hasCompleted"

\* acquireTask (lines 53-59, 388-392): incr <taskId>_acqCount; a reply
\* greater than 1 is logged, and hasCompleted is called in either case.
AcquireTask(w) ==
    /\ pc[w] = "acquireTask"
    /\ acqCount' = IncrReply(acqCount)
    /\ totalAcq' = [totalAcq EXCEPT ![w] = acqCount']
    /\ pc' = [pc EXCEPT ![w] = AfterAcquire(totalAcq'[w])]
    /\ events' = [events EXCEPT ![w] = Append(@, "acquire")]
    /\ UNCHANGED <<completedTasks, msgQueue, hf_all_jobs, notifications, existing>>
    /\ UNCHANGED <<outcome, retval, jobHasCompleted, jm>>
    /\ UNCHANGED <<initQueue, memberAtCheck, retrievals, checkRounds, spawns, exits, notifyCalls>>
    /\ UNCHANGED <<envVars, execVars, waitVars>>
    /\ UNCHANGED timerVars
    /\ UNCHANGED fileVars
    /\ UNCHANGED monVars

\* hasCompleted and the short circuit (lines 396-403).
HasCompleted(w) ==
    /\ pc[w] = "hasCompleted"
    /\ jobHasCompleted' = [jobHasCompleted EXCEPT ![w] = hasCompleted(TaskId)]
    /\ memberAtCheck' = [memberAtCheck EXCEPT ![w] = TaskId \in completedTasks]
    /\ events' = [events EXCEPT ![w] = Append(@, "check")]
    /\ IF jobHasCompleted'[w]
       THEN /\ pc' = [pc EXCEPT ![w] = "done"]
            /\ outcome' = [outcome EXCEPT ![w] = "returned"]
            /\ retval' = [retval EXCEPT ![w] = <<>>]
       ELSE /\ pc' = [pc EXCEPT ![w] = "getJobMessage"]
            /\ UNCHANGED <<outcome, retval>>
    /\ UNCHANGED <<totalAcq, jm>>
    /\ UNCHANGED <<initQueue, retrievals, checkRounds, spawns, exits, notifyCalls>>
    /\ UNCHANGED <<storeVars, envVars, execVars, waitVars>>
    /\ UNCHANGED timerVars
    /\ UNCHANGED fileVars
    /\ UNCHANGED monVars

\* A Redis command of acquireTask, hasCompleted or getJobMessage replies with
\* an error: the promise rejects and handleJob throws (lines 56, 83, 66,
\* 409-413).
StoreError(w) ==
    /\ pc[w] \in {"acquireTask", "hasCompleted", "getJobMessage"}
    /\ pc' = [pc EXCEPT ![w] = "done"]
    /\ outcome' = [outcome EXCEPT ![w] = "thrownStoreError"]
    /\ UNCHANGED <<retval, totalAcq, jobHasCompleted, jm>>
    /\ UNCHANGED <<storeVars, envVars, execVars, waitVars, histVars>>
    /\ UNCHANGED timerVars
    /\ UNCHANGED fileVars
    /\ UNCHANGED monVars

\* getJobMessage (lines 62-69, 408-426): brpoplpush blocks (timeout 0) until
\* the list is non-empty; then the message is parsed and either
\* waitForInputs or executeJob is called.
GetJobMessage(w) ==
    /\ pc[w] = "getJobMessage"
    /\ msgQueue # <<>>
    /\ jm' = [jm EXCEPT ![w] = RetrievedMessage(msgQueue)]
    /\ msgQueue' = QueueAfterRetrieval(msgQueue)
    /\ retrievals' = [retrievals EXCEPT ![w] = @ + 1]
    /\ events' = [events EXCEPT ![w] = Append(@, "retrieve")]
    /\ IF MustWaitForInputs(jm'[w])
       THEN /\ pc' = [pc EXCEPT ![w] = "waitForInputs"]
            /\ filesToWatch' = [filesToWatch EXCEPT ![w] = jm'[w].inputs]
            /\ filesReady' = [filesReady EXCEPT ![w] = <<>>]
            /\ num_retries' = [num_retries EXCEPT ![w] = 0]
       ELSE /\ pc' = [pc EXCEPT ![w] = "executeJob"]
            /\ UNCHANGED waitVars
    /\ UNCHANGED <<acqCount, completedTasks, hf_all_jobs, notifications, existing>>
    /\ UNCHANGED <<outcome, retval, totalAcq, jobHasCompleted>>
    /\ UNCHANGED <<initQueue, memberAtCheck, checkRounds, spawns, exits, notifyCalls>>
    /\ UNCHANGED <<envVars, execVars>>
    /\ UNCHANGED timerVars
    /\ UNCHANGED fileVars
    /\ UNCHANGED monVars

\* A catch that swallows the rejection of waitForInputs.
OnWaitRejectedGoOn == "executeJob"

\* handleJob rethrows the rejection of waitForInputs (lines 421-425).
OnWaitRejected == "done"

\* checkFiles (lines 298-341), called by waitForInputs and then by its own
\* timer.  A rejection is rethrown by handleJob (lines 421-425).
CheckFiles(w) ==
    /\ pc[w] = "waitForInputs"
    /\ IF WatchBudgetExceeded(num_retries[w], WatchRetries)
       THEN /\ pc' = [pc EXCEPT ![w] = OnWaitRejected]
            /\ outcome' = [outcome EXCEPT ![w] = "thrownInputTimeout"]
            /\ events' = [events EXCEPT ![w] = Append(@, "waitReject")]
            /\ UNCHANGED <<waitVars, checkRounds>>
       ELSE /\ num_retries' = [num_retries EXCEPT ![w] = @ + 1]
            /\ checkRounds' = [checkRounds EXCEPT ![w] = @ + 1]
            /\ filesReady' = [filesReady EXCEPT
                   ![w] = @ \o SelectFiles(filesToWatch[w], existing)]
            /\ filesToWatch' = [filesToWatch EXCEPT
                   ![w] = SelectFiles(@, Files \ existing)]
            /\ pc' = [pc EXCEPT ![w] =
                   IF filesToWatch'[w] = <<>> THEN "executeJob" ELSE "waitForInputs"]
            /\ events' = [events EXCEPT ![w] =
                   IF filesToWatch'[w] = <<>> THEN Append(@, "waitResolve") ELSE @]
            /\ UNCHANGED outcome
    /\ UNCHANGED <<retval, totalAcq, jobHasCompleted, jm>>
    /\ UNCHANGED <<initQueue, memberAtCheck, retrievals, spawns, exits, notifyCalls>>
    /\ UNCHANGED <<storeVars, envVars, execVars>>
    /\ UNCHANGED timerVars
    /\ UNCHANGED fileVars
    /\ UNCHANGED monVars

\* executeJob up to the registration of the close handler (lines 162-231):
\* called by handleJob with attempt 1 (line 441) and by the backoff timer
\* with attempt+1 (line 250).
ExecuteJob(w) ==
    /\ \/ pc[w] = "executeJob" /\ proc[w] = "none"
       \/ proc[w] = "backoff" /\ timer[w] = 0
    /\ backoffDelay' = [backoffDelay EXCEPT ![w] = 0]
    /\ timer' = [timer EXCEPT ![w] = 0]
    /\ elapsed' = [elapsed EXCEPT ![w] = 0]
    /\ content' = OpenRedirs(content, jm[w], RedirStreams(jm[w]))
    /\ LET targetPid == MainPid(attempt[w] + 1)
           live == alive[w] \cup {targetPid}
       IN /\ alive' = [alive EXCEPT ![w] = live]
          /\ \E r \in FirstSamples(live, {targetPid}) :
                loops' = [loops EXCEPT ![w] = StartLoops({targetPid}, r) @@ @]
          /\ procInfoCalls' = [procInfoCalls EXCEPT ![w] = CountCalls(@, {targetPid})]
          /\ allpids' = [allpids EXCEPT ![w] = Append(@, {})]
          /\ chains' = [chains EXCEPT ![w] = Append(@, PidtreeCall(attempt[w] + 1, live))]
    /\ UNCHANGED forked
    /\ attempt' = [attempt EXCEPT ![w] = @ + 1]
    /\ numRetries' = [numRetries EXCEPT ![w] = @ - 1]
    /\ spawns' = [spawns EXCEPT ![w] = @ + 1]
    /\ events' = [events EXCEPT ![w] = Append(@, "spawn")]
    /\ proc' = [proc EXCEPT ![w] = "running"]
    /\ pc' = [pc EXCEPT ![w] = "awaitExecuteJob"]
    /\ UNCHANGED <<code, resolved>>
    /\ UNCHANGED <<outcome, retval, totalAcq, jobHasCompleted, jm>>
    /\ UNCHANGED <<initQueue, memberAtCheck, retrievals, checkRounds, exits, notifyCalls>>
    /\ UNCHANGED <<storeVars, envVars, waitVars>>

\* The retry branch falling through to the notification.
RetryJobAndNotify(w) ==
    /\ proc' = [proc EXCEPT ![w] = "backoff"]
    /\ \E d \in BackoffDelays(attempt[w]) :
          /\ backoffDelay' = [backoffDelay EXCEPT ![w] = d]
          /\ timer' = [timer EXCEPT ![w] = TimerMs(d)]
    /\ elapsed' = [elapsed EXCEPT ![w] = 0]
    /\ content' = OpenLogs(Piped(content, LogFiles(w) \cup RedirFiles(jm[w]), w, attempt[w]),
                           w, Streams, RetryLogFlags)
    /\ notifyCalls' = [notifyCalls EXCEPT ![w] = @ + 1]
    /\ events' = [events EXCEPT ![w] = Append(Append(@, "exit"), "notify")]

\* The retry branch of the close handler (lines 241-250): the backoff timer
\* is set.
RetryJob(w) ==
    /\ proc' = [proc EXCEPT ![w] = "backoff"]
    /\ \E d \in BackoffDelays(attempt[w]) :
          /\ backoffDelay' = [backoffDelay EXCEPT ![w] = d]
          /\ timer' = [timer EXCEPT ![w] = TimerMs(d)]
    /\ elapsed' = [elapsed EXCEPT ![w] = 0]
    /\ content' = OpenLogs(Piped(content, LogFiles(w) \cup RedirFiles(jm[w]), w, attempt[w]),
                           w, Streams, RetryLogFlags)
    /\ events' = [events EXCEPT ![w] = Append(@, "exit")]
    /\ UNCHANGED notifyCalls

\* The other branch up to its await (lines 251-254): notifyJobCompletion
\* is called.
FinishJob(w) ==
    /\ proc' = [proc EXCEPT ![w] = "notifying"]
    /\ notifyCalls' = [notifyCalls EXCEPT ![w] = @ + 1]
    /\ events' = [events EXCEPT ![w] = Append(Append(@, "exit"), "notify")]
    /\ UNCHANGED timerVars
    /\ content' = Piped(content, LogFiles(w) \cup RedirFiles(jm[w]), w, attempt[w])

\* The handler of the child's 'close' event (lines 232-254).
CloseHandler(w) ==
    /\ proc[w] = "running"
    /\ \E c \in ExitCodes(attempt[w]) :
          /\ code' = [code EXCEPT ![w] = c]
          /\ exits' = [exits EXCEPT ![w] = Append(@, c)]
          /\ IF ShouldRetry(c, numRetries[w]) THEN RetryJob(w) ELSE FinishJob(w)
    /\ UNCHANGED <<numRetries, attempt, resolved>>
    /\ UNCHANGED <<initQueue, memberAtCheck, retrievals, checkRounds, spawns>>
    /\ UNCHANGED <<storeVars, envVars, runVars, waitVars>>
    /\ alive' = [alive EXCEPT ![w] = @ \ {MainPid(attempt[w])}]
    /\ UNCHANGED <<forked, allpids, chains, loops, procInfoCalls>>

\* connector.notifyJobCompletion(taskId, code) replying ok: the control
\* plane has the exit code and the task is in the completedTasks set.
NotifyJobCompletion(w) ==
    /\ notifications' = Append(notifications, [worker |-> w, code |-> code[w]])
    /\ completedTasks' = completedTasks \cup {TaskId}

\* The notification succeeds and the close handler resumes (lines 254,
\* 262-286): srem hf_all_jobs, and resolve of the promise created by this
\* call of executeJob.
NotifyOk(w) ==
    /\ proc[w] = "notifying"
    /\ NotifyJobCompletion(w)
    /\ hf_all_jobs' = hf_all_jobs \ {allJobsMember(w)}
    /\ resolved' = [resolved EXCEPT ![w] = @ \cup {attempt[w]}]
    /\ proc' = [proc EXCEPT ![w] = "finished"]
    /\ UNCHANGED <<acqCount, msgQueue, existing>>
    /\ UNCHANGED <<numRetries, attempt, code>>
    /\ UNCHANGED <<envVars, runVars, waitVars, histVars>>
    /\ UNCHANGED timerVars
    /\ UNCHANGED fileVars
    /\ UNCHANGED monVars

\* connector.notifyJobCompletion fails: the close handler logs and throws
\* (lines 256-260).  The handler is an async listener, so the throw rejects
\* a promise nobody holds: the runtime either reports the unhandled
\* rejection and goes on, or terminates the process.
NotifyError(w) ==
    /\ proc[w] = "notifying"
    /\ proc' = [proc EXCEPT ![w] = "notifyFailed"]
    /\ \E o \in {"pending", "crashed"} :
          /\ outcome' = [outcome EXCEPT ![w] = o]
          /\ pc' = [pc EXCEPT ![w] = IF o = "crashed" THEN "done" ELSE @]
    /\ UNCHANGED <<retval, totalAcq, jobHasCompleted, jm>>
    /\ UNCHANGED <<numRetries, attempt, code, resolved>>
    /\ UNCHANGED <<storeVars, envVars, waitVars, histVars>>
    /\ UNCHANGED timerVars
    /\ UNCHANGED fileVars
    /\ UNCHANGED monVars

\* handleJob resumes from await executeJob(jm, 1) (lines 441-455) once the
\* promise of that first call is resolved, and returns the exit code.
Return(w) ==
    /\ pc[w] = "awaitExecuteJob"
    /\ 1 \in resolved[w]
    /\ pc' = [pc EXCEPT ![w] = "done"]
    /\ outcome' = [outcome EXCEPT ![w] = "returned"]
    /\ retval' = [retval EXCEPT ![w] = <<code[w]>>]
    /\ events' = [events EXCEPT ![w] = Append(@, "return")]
    /\ UNCHANGED <<totalAcq, jobHasCompleted, jm>>
    /\ UNCHANGED <<initQueue, memberAtCheck, retrievals, checkRounds, spawns, exits, notifyCalls>>
    /\ UNCHANGED <<storeVars, envVars, execVars, waitVars>>
    /\ UNCHANGED timerVars
    /\ UNCHANGED fileVars
    /\ UNCHANGED monVars

\* A second passes while the backoff timer of w is pending.
Tick(w) ==
    /\ proc[w] = "backoff"
    /\ timer[w] > 0
    /\ timer' = [timer EXCEPT ![w] = IF @ > MsPerSecond THEN @ - MsPerSecond ELSE 0]
    /\ elapsed' = [elapsed EXCEPT ![w] = @ + 1]
    /\ UNCHANGED backoffDelay
    /\ UNCHANGED <<storeVars, envVars, runVars, execVars, waitVars, fileVars, monVars, histVars>>

\* The job of w forks a child.
Fork(w) ==
    /\ proc[w] = "running"
    /\ attempt[w] \in forkAt
    /\ ChildPid(attempt[w]) \notin forked[w]
    /\ forked' = [forked EXCEPT ![w] = @ \cup {ChildPid(attempt[w])}]
    /\ alive' = [alive EXCEPT ![w] = @ \cup {ChildPid(attempt[w])}]
    /\ UNCHANGED <<allpids, chains, loops, procInfoCalls>>
    /\ UNCHANGED <<storeVars, envVars, runVars, execVars, waitVars, timerVars, fileVars,
                   histVars>>

\* A forked child of the job of w exits.
ChildExit(w) ==
    /\ \E p \in forked[w] \cap alive[w] :
          alive' = [alive EXCEPT ![w] = @ \ {p}]
    /\ UNCHANGED <<forked, allpids, chains, loops, procInfoCalls>>
    /\ UNCHANGED <<storeVars, envVars, runVars, execVars, waitVars, timerVars, fileVars,
                   histVars>>

\* The timer of a loop fires, or the callback of pidusage runs: one sample
\* of pid p by the loop of the given kind (lines 105-153).
Sample(w) ==
    /\ \E x \in DOMAIN loops[w] :
          /\ loops[w][x].scheduled
          /\ \E r \in SampleResults(alive[w], x[1]) :
                loops' = [loops EXCEPT ![w][x] = AfterSample(x[2], r)]
    /\ UNCHANGED <<alive, forked, allpids, chains, procInfoCalls>>
    /\ UNCHANGED <<storeVars, envVars, runVars, execVars, waitVars, timerVars, fileVars,
                   histVars>>

\* The timer of discovery chain k fires (line 202): the global addPidTree,
\* which is the closure of the latest call of executeJob, calls pidtree.
DiscoveryTimer(w) ==
    /\ \E k \in DOMAIN chains[w] :
          /\ chains[w][k].phase = "timer"
          /\ chains' = [chains EXCEPT ![w][k] = PidtreeCall(attempt[w], alive[w])]
    /\ UNCHANGED <<alive, forked, allpids, loops, procInfoCalls>>
    /\ UNCHANGED <<storeVars, envVars, runVars, execVars, waitVars, timerVars, fileVars,
                   histVars>>

\* The callback of pidtree (lines 194-203): without pids the chain ends;
\* every pid that allpids does not hold is added and given to logProcInfo,
\* and the timer is set.
DiscoveryCallback(w) ==
    /\ \E k \in DOMAIN chains[w] :
          LET c == chains[w][k]
              new == {p \in c.pids : ~IsTracked(allpids[w][c.closure], p)}
          IN /\ c.phase = "pidtree"
             /\ IF ~c.found
                THEN /\ chains' = [chains EXCEPT ![w][k] = ChainOver]
                     /\ UNCHANGED <<allpids, loops, procInfoCalls>>
                ELSE /\ chains' = [chains EXCEPT ![w][k] = ChainTimer]
                     /\ allpids' = [allpids EXCEPT ![w][c.closure] = @ \cup c.pids]
                     /\ procInfoCalls' = [procInfoCalls EXCEPT ![w] = CountCalls(@, new)]
                     /\ \E r \in FirstSamples(alive[w], new) :
                           loops' = [loops EXCEPT ![w] = StartLoops(new, r) @@ @]
    /\ UNCHANGED <<alive, forked>>
    /\ UNCHANGED <<storeVars, envVars, runVars, execVars, waitVars, timerVars, fileVars,
                   histVars>>

\* An input file is produced by another task.
FileAppears(f) ==
    /\ f \notin existing
    /\ existing' = existing \cup {f}
    /\ UNCHANGED <<acqCount, completedTasks, msgQueue, hf_all_jobs, notifications>>
    /\ UNCHANGED <<envVars, runVars, execVars, waitVars, histVars>>
    /\ UNCHANGED timerVars
    /\ UNCHANGED fileVars
    /\ UNCHANGED monVars

WorkerNext(w) ==
    \/ Start(w)
    \/ AcquireTask(w)
    \/ HasCompleted(w)
    \/ StoreError(w)
    \/ GetJobMessage(w)
    \/ CheckFiles(w)
    \/ ExecuteJob(w)
    \/ CloseHandler(w)
    \/ NotifyOk(w)
    \/ NotifyError(w)
    \/ Return(w)
    \/ Tick(w)

Next ==
    \/ \E w \in Workers : WorkerNext(w)
    \/ \E f \in Files : FileAppears(f)

Spec == Init /\ [][Next]_vars

SpecDup == InitDup /\ [][Next]_vars

\* One run with many retries.
SpecBackoff == InitBackoff /\ [][Next]_vars

\* The timers and callbacks of the process monitor, and the job's children.
MonitorNext(w) ==
    \/ Fork(w)
    \/ ChildExit(w)
    \/ Sample(w)
    \/ DiscoveryTimer(w)
    \/ DiscoveryCallback(w)

NextMon ==
    \/ Next
    \/ \E w \in Workers : MonitorNext(w)

\* One run together with its process monitor.
SpecMon == InitMon /\ [][NextMon]_vars

\* One run in which the timer of checkFiles (line 337) eventually fires.
SpecWait == Init /\ [][Next]_vars /\ \A w \in Workers : WF_vars(CheckFiles(w))

\* ------------------------------------------------------------------ claims

\* The retry count the run was configured with (NUMBER_OF_RETRIES, 1 when
\* unset).
ConfiguredRetries == EnvOr(envRetries, DefaultNumRetries)

\* The retry chain of w has ended: its last close handler took the branch
\* that notifies.
ChainEnded(w) == proc[w] \in {"notifying", "finished", "notifyFailed"}

NotificationsOf(w) == {i \in DOMAIN notifications : notifications[i].worker = w}

\* C1: a run whose completion check finds the task in completedTasks
\* retrieves no descriptor, runs no input-wait round, spawns no process, calls
\* no notification, and has returned (undefined) by the end of that step.
C1_CompletedShortCircuit ==
    \A w \in Workers :
        memberAtCheck[w] =>
            /\ retrievals[w] = 0
            /\ checkRounds[w] = 0
            /\ spawns[w] = 0
            /\ notifyCalls[w] = 0
            /\ NotificationsOf(w) = {}
            /\ pc[w] = "done"
            /\ outcome[w] = "returned"
            /\ retval[w] = <<>>

C1_Witness ==
    \E w \in Workers : memberAtCheck[w] /\ pc[w] = "done" /\ totalAcq[w] = 2

\* C2: when the job exits non-zero on every attempt, the chain ends after
\* exactly ConfiguredRetries + 1 spawns with one notification call that
\* carries the last exit code.
C2_AlwaysFailingSpawns ==
    \A w \in Workers :
        (exitZeroAt = 0 /\ ChainEnded(w)) =>
            /\ spawns[w] = ConfiguredRetries + 1
            /\ notifyCalls[w] = 1
            /\ code[w] = exits[w][Len(exits[w])]
            /\ code[w] # 0

\* C3: when the job first exits 0 on attempt k, 1 <= k <= ConfiguredRetries
\* + 1, there are never more than k spawns, and the chain ends after exactly
\* k spawns with one notification call carrying code 0.
C3_SucceedsOnAttemptK ==
    \A w \in Workers :
        (exitZeroAt >= 1 /\ exitZeroAt <= ConfiguredRetries + 1) =>
            /\ spawns[w] <= exitZeroAt
            /\ ChainEnded(w) =>
                  /\ spawns[w] = exitZeroAt
                  /\ code[w] = 0
                  /\ notifyCalls[w] = 1

\* C4: within one run notifyJobCompletion is called at most once.
C4_NotifyAtMostOnce ==
    \A w \in Workers : notifyCalls[w] <= 1 /\ Cardinality(NotificationsOf(w)) <= 1

C4_Witness ==
    \E w \in Workers :
        /\ notifyCalls[w] = 1
        /\ Len(exits[w]) >= 2
        /\ proc[w] = "finished"

\* C5: once the chain has ended with a successful notification (on the first
\* attempt or on a retried one), handleJob has returned that exit code or
\* is about to; and a run that returned an exit code has notified before.
C5_ReturnsTerminalCode ==
    \A w \in Workers :
        /\ proc[w] = "finished" =>
              \/ outcome[w] = "returned" /\ retval[w] = <<code[w]>>
              \/ ENABLED Return(w)
        /\ (outcome[w] = "returned" /\ retval[w] # <<>>) => NotificationsOf(w) # {}

\* C6: when notifyJobCompletion fails, handleJob ends by throwing that
\* error, and the notification is not called again.
C6_NotifyFailureRaised ==
    \A w \in Workers :
        proc[w] = "notifyFailed" =>
            /\ outcome[w] = "thrownNotifyError"
            /\ notifyCalls[w] = 1

\* The number of occurrences of m in q.
Count(q, m) == Cardinality({i \in DOMAIN q : q[i] = m})

\* C7: after any number of retrievals by any runs the queue holds the
\* messages it held before any run, each as often as before, and every
\* descriptor a run retrieved is still in the queue.
C7_RetrievalNonDestructive ==
    /\ Len(msgQueue) = Len(initQueue)
    /\ \A m \in Descriptors : Count(msgQueue, m) = Count(initQueue, m)
    /\ \A w \in Workers :
          retrievals[w] > 0 => \E i \in DOMAIN msgQueue : msgQueue[i] = jm[w]

C7_Witness ==
    /\ \A w \in Workers : retrievals[w] = 1
    /\ Len(initQueue) = 2
    /\ initQueue[1] # initQueue[2]

\* The runs whose incr has replied.
Acquired == {w \in Workers : totalAcq[w] # 0}

\* The counter equals the number of runs that acquired the task, these runs
\* observed the distinct values 1..acqCount, and only the completion marker
\* or a store error keeps an acquired run from retrieving the descriptor.
C8_CounterState ==
    /\ acqCount = Cardinality(Acquired)
    /\ {totalAcq[w] : w \in Acquired} = 1..acqCount
    /\ \A w \in Acquired :
          \/ pc[w] = "hasCompleted"
          \/ outcome[w] = "thrownStoreError"
          \/ memberAtCheck[w] /\ outcome[w] = "returned"
          \/ ~memberAtCheck[w] /\ (pc[w] = "getJobMessage" \/ retrievals[w] = 1)

\* A step that sets totalAcq of a run.
C8_AcquisitionStep ==
    \A w \in Workers :
        totalAcq'[w] # totalAcq[w] =>
            /\ acqCount' = acqCount + 1
            /\ totalAcq'[w] = acqCount'
            /\ pc'[w] = "hasCompleted"

\* C8: every run adds exactly 1 to the acquisition counter and observes the
\* new value, so n runs leave the counter at n having observed 1..n; and
\* whatever the value, the run goes on to the completion check and from
\* there as a run that observed 1.
C8_AcquisitionCounter == []C8_CounterState /\ [][C8_AcquisitionStep]_vars

C8_Witness ==
    \E w \in Workers : totalAcq[w] = 2 /\ spawns[w] = 1 /\ acqCount = 2

\* C9: over all runs for the task the outcome is reported to the control
\* plane at most once, and exactly once when every run has returned.
C9_ReportedExactlyOnce ==
    /\ Len(notifications) <= 1
    /\ (\A w \in Workers : outcome[w] = "returned") => Len(notifications) = 1

\* The inputs of the descriptor of w, none of which has appeared.
NoInputAppeared(w) ==
    \A i \in DOMAIN jm[w].inputs : jm[w].inputs[i] \notin existing

\* C10: waitForInputs fails only after exactly maxRetries + 1 rounds that
\* checked file existence; while no file has appeared it never succeeds
\* and never checks more often than that.
C10_TimeoutAfterRounds ==
    \A w \in Workers :
        /\ outcome[w] = "thrownInputTimeout" => checkRounds[w] = WatchRetries + 1
        /\ (retrievals[w] = 1 /\ MustWaitForInputs(jm[w]) /\ NoInputAppeared(w)) =>
              /\ checkRounds[w] <= WatchRetries + 1
              /\ spawns[w] = 0
              /\ \/ pc[w] = "waitForInputs" /\ ENABLED CheckFiles(w)
                 \/ outcome[w] = "thrownInputTimeout"

C10_Witness ==
    \E w \in Workers :
        /\ outcome[w] = "thrownInputTimeout"
        /\ existing = {}
        /\ WatchRetries = MaxWatchRetries
        /\ checkRounds[w] = MaxWatchRetries + 1

\* The indices at which the run of w did e.
Pos(w, e) == {i \in DOMAIN events[w] : events[w][i] = e}

\* Whenever the run of w did b it had done a before.
Before(w, a, b) == \A j \in Pos(w, b) : \E i \in Pos(w, a) : i < j

\* The run of w called waitForInputs.
Waited(w) == retrievals[w] = 1 /\ MustWaitForInputs(jm[w])

\* The settlements of the promise of waitForInputs.
WaitOutcomes(w) == Pos(w, "waitResolve") \cup Pos(w, "waitReject")

\* A call of waitForInputs never settles twice, settles when it stops
\* polling, resolves only with every file observed and rejects only with
\* the budget exhausted and a file still missing; it never polls more than
\* maxRetries + 1 rounds.
C11_OneOutcome ==
    \A w \in Workers :
        /\ Cardinality(WaitOutcomes(w)) <= 1
        /\ checkRounds[w] <= WatchRetries + 1
        /\ Waited(w) =>
              /\ pc[w] = "waitForInputs" <=> WaitOutcomes(w) = {}
              /\ Pos(w, "waitResolve") # {} =>
                    /\ filesToWatch[w] = <<>>
                    /\ \A i \in DOMAIN jm[w].inputs :
                          \E k \in DOMAIN filesReady[w] : filesReady[w][k] = jm[w].inputs[i]
              /\ Pos(w, "waitReject") # {} =>
                    /\ filesToWatch[w] # <<>>
                    /\ num_retries[w] > WatchRetries

\* C11: every call of waitForInputs terminates, whatever files appear and
\* whenever, with exactly one of resolve (all files observed) and reject
\* (retry budget exhausted).
C11_WaitTerminates ==
    /\ []C11_OneOutcome
    /\ \A w \in Workers :
          (pc[w] = "waitForInputs") ~> (Cardinality(WaitOutcomes(w)) = 1)

C11_Witness ==
    \E w \in Workers :
        /\ Pos(w, "waitResolve") # {}
        /\ checkRounds[w] = 2
        /\ Len(filesReady[w]) = 2

\* C12: a run whose input wait was rejected has thrown, has spawned no
\* process and has called no notification, then and ever after.
C12_TimeoutAbortsBeforeSpawn ==
    \A w \in Workers :
        Pos(w, "waitReject") # {} =>
            /\ pc[w] = "done"
            /\ outcome[w] = "thrownInputTimeout"
            /\ spawns[w] = 0
            /\ notifyCalls[w] = 0
            /\ NotificationsOf(w) = {}

C12_Witness ==
    \E w \in Workers :
        /\ Pos(w, "waitReject") # {}
        /\ pc[w] = "done"
        /\ existing # {}

\* C13: in every run the acquisition precedes the completion check, the
\* check precedes the retrieval, the retrieval and (when the run waits for
\* inputs) the resolved wait precede every spawn, and every spawn precedes
\* the notification.
C13_EventOrder ==
    \A w \in Workers :
        /\ Before(w, "acquire", "check")
        /\ Before(w, "check", "retrieve")
        /\ Before(w, "retrieve", "spawn")
        /\ Waited(w) => Before(w, "waitResolve", "spawn")
        /\ \A i \in Pos(w, "spawn") : \A j \in Pos(w, "notify") : i < j

C13_Witness ==
    \E w \in Workers :
        /\ Pos(w, "waitResolve") # {}
        /\ Cardinality(Pos(w, "spawn")) = 2
        /\ Pos(w, "notify") # {}

\* C14: a run never spawns more than 1 + the configured retry count
\* processes.
C14_SpawnBound ==
    \A w \in Workers : spawns[w] <= 1 + ConfiguredRetries

C14_Witness ==
    \E w \in Workers :
        /\ envRetries = <<0>>
        /\ spawns[w] = 1
        /\ ChainEnded(w)
        /\ code[w] # 0

\* The run of w has created its closure variables.
Started(w) == pc[w] \notin {"idle", "absent"}

\* C17: attempt >= 1 once executeJob was called, remainingRetries >= 0
\* always, and remainingRetries is the configured count less one per spawn.
C17_RetryStateRanges ==
    \A w \in Workers :
        /\ spawns[w] >= 1 => attempt[w] >= 1
        /\ numRetries[w] >= 0
        /\ Started(w) => numRetries[w] = ConfiguredRetries - spawns[w]

\* The run of w has ended by the short circuit, by a retrieval error, by
\* the input-wait timeout, or by returning the exit code.
RunEnded(w) ==
    /\ pc[w] = "done"
    /\ \/ outcome[w] = "returned"
       \/ outcome[w] = "thrownInputTimeout"
       \/ outcome[w] = "thrownStoreError" /\ Pos(w, "check") # {}

\* C20: no run that has ended in one of these ways leaves the member it
\* added in the set hf_all_jobs.
C20_MemberRemoved ==
    \A w \in Workers : RunEnded(w) => allJobsMember(w) \notin hf_all_jobs


\* ------------------------------------------------------------------ C18
\* min(a, 5)
MinAttemptCap(a) == IF a < 5 THEN a ELSE 5

\* C18 as stated: the backoff delay scheduled after failed attempt a is an
\* integer d with 0 <= d < backoffSeed * min(a, 5).
C18_DelayInRange ==
    \A w \in Workers :
        proc[w] = "backoff" =>
            /\ backoffDelay[w] \in Int
            /\ 0 <= backoffDelay[w]
            /\ backoffDelay[w] < BackoffSeed * MinAttemptCap(attempt[w])

\* A retry spawn of w: the step from the backoff to the next process.
RetrySpawn(w) == spawns[w] >= 1 /\ spawns'[w] = spawns[w] + 1

\* C18, amended: for a backoff seed of at least 1 the delay scheduled after
\* failed attempt a is an integer d with 0 <= d < backoffSeed * min(a, 5), and
\* d = 0 for a backoff seed of 0; the next spawn happens only after d seconds
\* have passed since the delay was scheduled, when every earlier process of
\* the run has exited.
C18_BackoffDelay ==
    /\ [](\A w \in Workers :
            proc[w] = "backoff" =>
                /\ backoffDelay[w] \in Nat
                /\ BackoffSeed >= 1 =>
                      backoffDelay[w] < BackoffSeed * MinAttemptCap(attempt[w])
                /\ BackoffSeed = 0 => backoffDelay[w] = 0)
    /\ [][\A w \in Workers :
            RetrySpawn(w) =>
                /\ proc[w] = "backoff"
                /\ elapsed[w] >= backoffDelay[w]
                /\ Len(exits[w]) = spawns[w]]_vars

\* The longest delay after an attempt beyond the cap has fully elapsed.
C18_Witness ==
    \E w \in Workers :
        /\ proc[w] = "backoff"
        /\ attempt[w] > 5
        /\ BackoffSeed >= 2
        /\ backoffDelay[w] = BackoffSeed * 5 - 1
        /\ elapsed[w] = backoffDelay[w]
        /\ timer[w] = 0

\* ------------------------------------------------------------------ C19
\* The files that capture the output of the job of w.
CaptureFiles(w) == LogFiles(w) \cup RedirFiles(jm[w])

\* The capturing files of w that the job's descriptor does not ask to
\* truncate: the log files and the redirections given as stdoutAppend or
\* stderrAppend.
AppendedFiles(w) ==
    LogFiles(w)
        \cup {RedirFile(jm[w], s) : s \in {x \in RedirStreams(jm[w]) : RedirFlags(jm[w], x) = "a"}}

\* File f holds the output of every attempt of w that has exited.
HoldsAllAttempts(f, w) ==
    \A a \in 1..Len(exits[w]) : \E i \in DOMAIN content[f] : content[f][i] = <<w, a>>

\* C19 as stated: after any number of attempts every file that captures the
\* job's stdout or stderr holds the output of all earlier attempts of the run.
C19_EveryFileKeepsOutput ==
    \A w \in Workers : \A f \in CaptureFiles(w) : HoldsAllAttempts(f, w)

\* C19, amended: the log files of the run, reopened in append mode on a
\* retry, and the redirections given as stdoutAppend or stderrAppend hold the
\* output of all earlier attempts of the run.
C19_AppendedFilesKeepOutput ==
    \A w \in Workers : \A f \in AppendedFiles(w) : HoldsAllAttempts(f, w)

\* Two attempts of job a have exited: its logs and its stderrAppend file hold
\* both outputs, its stdout file only the second.
C19_Witness ==
    \E w \in Workers :
        /\ jm[w] = JobA
        /\ Len(exits[w]) = 2
        /\ \A s \in Streams : content[LogFile(w, s)] = << <<w, 1>>, <<w, 2>> >>
        /\ content[RedirFile(JobA, "stderr")] = << <<w, 1>>, <<w, 2>> >>
        /\ content[RedirFile(JobA, "stdout")] = << <<w, 2>> >>

\* ------------------------------------------------------------------ C15
\* The loops that logProcInfo has started for the pids of w.
StartedLoops(w) == DOMAIN loops[w]

\* C15: a sampling loop stops rescheduling itself if and only if a sample
\* reported that the process was not found; after any other sampling error
\* the error is logged and the loop is rescheduled.
C15_LoopStopsOnlyOnNotFound ==
    \A w \in Workers : \A x \in StartedLoops(w) :
        /\ ~loops[w][x].scheduled <=> loops[w][x].last = "notFound"
        /\ loops[w][x].last = "error" => loops[w][x].logged /\ loops[w][x].scheduled

\* ------------------------------------------------------------------ C16
\* Across all discovery ticks of a run, logProcInfo, which logs the static
\* command line and starts the three sampling loops, is called exactly once
\* for every pid that a call of executeJob spawned or added to its allpids,
\* and never twice for any pid.
C16_PidTrackedOnce ==
    \A w \in Workers :
        /\ \A p \in DOMAIN procInfoCalls[w] : procInfoCalls[w][p] = 1
        /\ \A k \in DOMAIN allpids[w] : \A p \in allpids[w][k] \cup {MainPid(k)} :
              /\ Calls(procInfoCalls[w], p) = 1
              /\ \A kind \in Kinds : <<p, kind>> \in StartedLoops(w)
        /\ \A k \in DOMAIN allpids[w] : \A j \in DOMAIN allpids[w] :
              k # j => allpids[w][k] \cap allpids[w][j] = {}

\* The chain of the first attempt and the chain of the retry both run on
\* the retry's target, whose child has been found and given to logProcInfo.
C16_Witness ==
    \E w \in Workers :
        /\ spawns[w] = 2
        /\ ChildPid(2) \in allpids[w][2]
        /\ \A k \in {1, 2} :
              /\ chains[w][k].phase = "pidtree"
              /\ chains[w][k].closure = 2
              /\ chains[w][k].pids = {ChildPid(2)}
        /\ procInfoCalls[w][ChildPid(2)] = 1
====
